---------------------------- MODULE Spec2Model ----------------------------
(***************************************************************************)
(* A model of tools/convert_standards_to_json.py: the batch driver (main), *)
(* the workbook converter (convert_one), the sheet resolver                *)
(* (choose_sheets), the age-column finder (find_age_col), the table        *)
(* reshaper (df_to_age_event_map) and the value normalizers                *)
(* (num_to_int_if_whole, hms_to_seconds).                                  *)
(*                                                                         *)
(* A Python str is a sequence of one-character strings; "sup2" stands for  *)
(* the single character U+00B2 (SUPERSCRIPT TWO).  A float is a whole      *)
(* number of thousandths (Milli).                                          *)
(***************************************************************************)
EXTENDS Integers, Sequences, FiniteSets, TLC

VARIABLES
    pc,       \* where the run is
    arg,      \* the argument of the call in progress
    ret,      \* what the call returned or raised
    tree,     \* the files under STANDARDS_DIR: path -> workbook
    files,    \* main's list of matching paths
    todo,     \* the paths the for loop has yet to reach, in its order
    disk,     \* the JSON files written: path -> its source and document
    writes,   \* every write_text call so far, in order
    reads,    \* every sheet read so far, in order
    stdout    \* the lines printed

vars == <<pc, arg, ret, tree, files, todo, disk, writes, reads, stdout>>

(***************************************************************************)
(* Characters and the str methods the program uses.                        *)
(***************************************************************************)
UpperCase == <<"A", "B", "C", "D", "E", "F", "G", "H", "I", "J", "K", "L", "M", "N", "O", "P", "Q", "R", "S", "T", "U", "V", "W", "X", "Y", "Z">>

LowerCase == <<"a", "b", "c", "d", "e", "f", "g", "h", "i", "j", "k", "l", "m", "n", "o", "p", "q", "r", "s", "t", "u", "v", "w", "x", "y", "z">>

AsciiDigits == <<"0", "1", "2", "3", "4", "5", "6", "7", "8", "9">>

\* The characters in code-point order (str comparison compares code points).
CodePoints == <<"\t", " ", "(", ")", "-", ".", "/", "0", "1", "2", "3", "4", "5", "6", "7", "8", "9", ":", "A", "B", "C", "D", "E", "F", "G", "H", "I", "J", "K", "L", "M", "N", "O", "P", "Q", "R", "S", "T", "U", "V", "W", "X", "Y", "Z", "_", "a", "b", "c", "d", "e", "f", "g", "h", "i", "j", "k", "l", "m", "n", "o", "p", "q", "r", "s", "t", "u", "v", "w", "x", "y", "z", "sup2">>

Range(f) == {f[i] : i \in DOMAIN f}

IndexOf(seq, x) == CHOOSE i \in DOMAIN seq : seq[i] = x

Ord(c) == IndexOf(CodePoints, c)

IsSpace(c) == c \in {" ", "\t"}

IsAsciiDigit(c) == c \in Range(AsciiDigits)

\* str.isdigit() of one character: the ASCII digits and also the superscript
\* digits, which int() does not accept.
IsDigitChar(c) == IsAsciiDigit(c) \/ c = "sup2"

LowerChar(c) == IF c \in Range(UpperCase) THEN LowerCase[IndexOf(UpperCase, c)] ELSE c

Lower(s) == [i \in DOMAIN s |-> LowerChar(s[i])]

RECURSIVE LStrip(_)
LStrip(s) == IF s # <<>> /\ IsSpace(Head(s)) THEN LStrip(Tail(s)) ELSE s

RECURSIVE RStrip(_)
RStrip(s) == IF s # <<>> /\ IsSpace(s[Len(s)]) THEN RStrip(SubSeq(s, 1, Len(s) - 1)) ELSE s

Strip(s) == RStrip(LStrip(s))

StartsWith(s, p) == Len(s) >= Len(p) /\ SubSeq(s, 1, Len(p)) = p

EndsWith(s, p) == Len(s) >= Len(p) /\ SubSeq(s, Len(s) - Len(p) + 1, Len(s)) = p

\* p in s
Contains(s, p) == \E i \in 1..(Len(s) - Len(p) + 1) : SubSeq(s, i, i + Len(p) - 1) = p

\* re.sub(r"\s+", " ", str(s).strip())
RECURSIVE CollapseSpaces(_)
CollapseSpaces(s) ==
    IF s = <<>> THEN <<>>
    ELSE IF IsSpace(Head(s))
         THEN <<" ">> \o CollapseSpaces(LStrip(s))
         ELSE <<Head(s)>> \o CollapseSpaces(Tail(s))

normalize(s) == CollapseSpaces(Strip(s))

\* re.sub(r"[^a-z0-9]+", "", str(s).strip().lower())
normalize_key(s) ==
    SelectSeq(Lower(Strip(s)), LAMBDA c : c \in Range(LowerCase) \/ IsAsciiDigit(c))


(***************************************************************************)
(* Python values: None and truthiness of an optional str.                  *)
(***************************************************************************)
None == [some |-> FALSE, v |-> <<>>]

Some(s) == [some |-> TRUE, v |-> s]

\* "if not x" is taken for None and for the empty str
Truthy(o) == o.some /\ o.v # <<>>

(***************************************************************************)
(* choose_sheets (lines 100-151).                                          *)
(***************************************************************************)
N_AgeStdFactors == <<"A", "g", "e", "S", "t", "d", "F", "a", "c", "t", "o", "r", "s">>

N_Age_Factors == <<"A", "g", "e", " ", "F", "a", "c", "t", "o", "r", "s">>

N_Age_factors == <<"A", "g", "e", " ", "f", "a", "c", "t", "o", "r", "s">>

N_Age_Facctors == <<"A", "g", "e", " ", "F", "a", "c", "c", "t", "o", "r", "s">>

N_AgeStdSec == <<"A", "g", "e", "S", "t", "d", "S", "e", "c">>

N_AgeStanSec == <<"A", "g", "e", "S", "t", "a", "n", "S", "e", "c">>

N_AgeStdHMS == <<"A", "g", "e", "S", "t", "d", "H", "M", "S">>

N_AgeStanHMS == <<"A", "g", "e", "S", "t", "a", "n", "H", "M", "S">>

FactorsCandidates ==
    << normalize_key(N_AgeStdFactors), normalize_key(N_Age_Factors),
       normalize_key(N_Age_factors), normalize_key(N_Age_Facctors) >>

SecCandidates == << normalize_key(N_AgeStdSec), normalize_key(N_AgeStanSec) >>

HmsCandidates == << normalize_key(N_AgeStdHMS), normalize_key(N_AgeStanHMS) >>

FactorsNeedle == <<"f", "a", "c", "t", "o", "r">>

SecNeedle == <<"s", "e", "c">>

HmsNeedle == <<"h", "m", "s">>

\* by_norm = {normalize_key(s): s for s in sheets}: a later sheet with the
\* same key replaces an earlier one.
by_norm(sheets) ==
    [k \in {normalize_key(sheets[i]) : i \in DOMAIN sheets} |->
        LET last == CHOOSE i \in DOMAIN sheets :
                        /\ normalize_key(sheets[i]) = k
                        /\ \A j \in DOMAIN sheets :
                               normalize_key(sheets[j]) = k => j <= i
        IN  sheets[last]]

\* a pick that takes the first sheet, in workbook order, matching any candidate
pickInSheetOrder(sheets, candidates_norm) ==
    LET hits == {i \in DOMAIN sheets : normalize_key(sheets[i]) \in Range(candidates_norm)}
    IN  IF hits = {} THEN None
        ELSE Some(sheets[CHOOSE i \in hits : \A j \in hits : i <= j])

\* pick: the first candidate, in candidate order, that is a key of by_norm
pick(sheets, candidates_norm) ==
    LET bn   == by_norm(sheets)
        hits == {i \in DOMAIN candidates_norm : candidates_norm[i] \in DOMAIN bn}
    IN  IF hits = {} THEN None
        ELSE Some(bn[candidates_norm[CHOOSE i \in hits : \A j \in hits : i <= j]])

\* a resolver without the substring pass
NoFallback(sheets, found, needle) == found

\* "for s in sheets: if needle in s.lower(): x = s; break", taken "if not x"
Fallback(sheets, found, needle) ==
    IF Truthy(found) THEN found
    ELSE LET hits == {i \in DOMAIN sheets : Contains(Lower(sheets[i]), needle)}
         IN  IF hits = {} THEN found
             ELSE Some(sheets[CHOOSE i \in hits : \A j \in hits : i <= j])

NoSheets == [factors |-> <<>>, sec |-> <<>>, hms |-> <<>>]

NoError == [kind |-> "none", missing |-> <<>>, available |-> <<>>]

\* The result of a call: a returned value (ok) or a raised exception (err).
choose_sheets(sheets) ==
    LET factors == Fallback(sheets, pick(sheets, FactorsCandidates), FactorsNeedle)
        sec     == Fallback(sheets, pick(sheets, SecCandidates), SecNeedle)
        hms     == Fallback(sheets, pick(sheets, HmsCandidates), HmsNeedle)
        missing == (IF Truthy(factors) THEN <<>> ELSE <<"factors">>)
                   \o (IF Truthy(sec) THEN <<>> ELSE <<"sec">>)
                   \o (IF Truthy(hms) THEN <<>> ELSE <<"hms">>)
    IN  IF missing # <<>>
        THEN [ok |-> FALSE, val |-> NoSheets,
              err |-> [kind |-> "RuntimeError: missing sheets", missing |-> missing,
                       available |-> sheets]]
        ELSE [ok |-> TRUE,
              val |-> [factors |-> factors.v, sec |-> sec.v, hms |-> hms.v],
              err |-> NoError]


(***************************************************************************)
(* Cells of a sheet and the values of the output document.                 *)
(*   nan        a missing cell (pd.isna)                                   *)
(*   int        a Python int, n its value                                  *)
(*   int64      a numpy.int64 (a cell of an all-integer column, as         *)
(*              iterrows yields it), n its value: not an instance of int   *)
(*   float      a Python float, n its value in thousandths                 *)
(*   str        a Python str, s its characters                             *)
(*   time       datetime.time / datetime / Timestamp, t = <<h, m, s, ms>>  *)
(*   timedelta  a duration, n its total in thousandths of a second         *)
(***************************************************************************)
\* thousandths per unit
Milli == 10 * 10 * 10

NaN == [k |-> "nan", n |-> 0, s |-> <<>>, t |-> <<>>]

IntCell(n) == [k |-> "int", n |-> n, s |-> <<>>, t |-> <<>>]

Int64Cell(n) == [k |-> "int64", n |-> n, s |-> <<>>, t |-> <<>>]

FloatCell(m) == [k |-> "float", n |-> m, s |-> <<>>, t |-> <<>>]

StrCell(s) == [k |-> "str", n |-> 0, s |-> s, t |-> <<>>]

TimeCell(h, m, s, ms) == [k |-> "time", n |-> 0, s |-> <<>>, t |-> <<h, m, s, ms>>]

TimedeltaCell(m) == [k |-> "timedelta", n |-> m, s |-> <<>>, t |-> <<>>]

\* JSON values: null, an int, a float (in thousandths)
Null == [k |-> "null", n |-> 0]

IntVal(n) == [k |-> "int", n |-> n]

FloatVal(m) == [k |-> "float", n |-> m]

\* a returned value, or a raised exception carrying the offending cell
Return(v) == [ok |-> TRUE, val |-> v, err |-> "none", value |-> NaN]

Raise(kind, x) == [ok |-> FALSE, val |-> Null, err |-> kind, value |-> x]

\* the number of leading characters of s that \d matches
RECURSIVE DigitRun(_)
DigitRun(s) == IF s # <<>> /\ IsAsciiDigit(Head(s)) THEN 1 + DigitRun(Tail(s)) ELSE 0

DigitValue(c) == IndexOf(AsciiDigits, c) - 1

\* int() of a str of ASCII digits
RECURSIVE DigitsToInt(_)
DigitsToInt(s) ==
    IF s = <<>> THEN 0
    ELSE 10 * DigitsToInt(SubSeq(s, 1, Len(s) - 1)) + DigitValue(s[Len(s)])

RECURSIVE Pow10(_)
Pow10(n) == IF n = 0 THEN 1 ELSE 10 * Pow10(n - 1)

\* the thousandths of ".ddd" (the fraction digits d, at most three of them)
FracToMilli(d) == (DigitsToInt(d) * Milli) \div Pow10(Len(d))

\* str(n) of an int
RECURSIVE NatToStr(_)
NatToStr(n) ==
    IF n < 10 THEN <<AsciiDigits[n + 1]>>
    ELSE NatToStr(n \div 10) \o <<AsciiDigits[(n % 10) + 1]>>

IntToStr(n) == IF n < 0 THEN <<"-">> \o NatToStr(0 - n) ELSE NatToStr(n)

\* float() of a str: [sign] digits [. digits] | [sign] . digits, surrounded by
\* whitespace; anything else raises ValueError.  (The forms with an exponent,
\* "inf", "nan" and "_" are not in any pool of cells below.)
ParseFloat(str) ==
    LET s0   == Strip(str)
        neg  == s0 # <<>> /\ Head(s0) = "-"
        s    == IF s0 # <<>> /\ Head(s0) \in {"-", "+"} THEN Tail(s0) ELSE s0
        ni   == DigitRun(s)
        rest == SubSeq(s, ni + 1, Len(s))
        frac == IF rest # <<>> /\ Head(rest) = "." THEN Tail(rest) ELSE <<>>
        nf   == DigitRun(frac)
        good == /\ ni + nf > 0
                /\ \/ rest = <<>>
                   \/ Head(rest) = "." /\ nf = Len(frac)
        mag  == DigitsToInt(SubSeq(s, 1, ni)) * Milli + FracToMilli(frac)
    IN  IF good THEN [ok |-> TRUE, m |-> IF neg THEN 0 - mag ELSE mag]
        ELSE [ok |-> FALSE, m |-> 0]

(***************************************************************************)
(* str(x) of a cell                                                        *)
(***************************************************************************)
Pad2(n) == IF n < 10 THEN <<"0">> \o NatToStr(n) ELSE NatToStr(n)

\* the fraction digits of a float's repr: thousandths without trailing zeros
FracDigits(m) ==
    LET d3 == <<AsciiDigits[(m \div 100) + 1], AsciiDigits[((m \div 10) % 10) + 1],
                AsciiDigits[(m % 10) + 1]>>
    IN  IF m % 100 = 0 THEN SubSeq(d3, 1, 1)
        ELSE IF m % 10 = 0 THEN SubSeq(d3, 1, 2) ELSE d3

FloatToStr(m) ==
    LET a == IF m < 0 THEN 0 - m ELSE m
    IN  (IF m < 0 THEN <<"-">> ELSE <<>>)
        \o NatToStr(a \div Milli) \o <<".">> \o FracDigits(a % Milli)

ClockStr(h, m, s) == Pad2(h) \o <<":">> \o Pad2(m) \o <<":">> \o Pad2(s)

CellStr(x) ==
    CASE x.k = "nan"       -> <<"n", "a", "n">>
      [] x.k \in {"int", "int64"} -> IntToStr(x.n)
      [] x.k = "float"     -> FloatToStr(x.n)
      [] x.k = "str"       -> x.s
      [] x.k = "time"      ->
            ClockStr(x.t[1], x.t[2], x.t[3])
            \o (IF x.t[4] = 0 THEN <<>>
                ELSE <<".">> \o FracDigits(x.t[4]) \o <<"0", "0", "0">>)
      [] x.k = "timedelta" ->
            <<"0", " ", "d", "a", "y", "s", " ">>
            \o ClockStr((x.n \div Milli) \div 3600, ((x.n \div Milli) \div 60) % 60,
                        (x.n \div Milli) % 60)

(***************************************************************************)
(* num_to_int_if_whole (lines 27-37)                                       *)
(***************************************************************************)
WholeOrFloat(m) == IF m % Milli = 0 THEN IntVal(m \div Milli) ELSE FloatVal(m)

num_to_int_if_whole(x) ==
    CASE x.k = "nan"   -> Return(Null)
      [] x.k \in {"int", "int64"} -> Return(IntVal(x.n))
      [] x.k = "float" -> Return(WholeOrFloat(x.n))
      [] x.k = "str"   -> LET f == ParseFloat(x.s)
                          IN  IF f.ok THEN Return(WholeOrFloat(f.m))
                              ELSE Raise("ValueError", x)
      [] OTHER         -> Raise("TypeError", x)   \* float(datetime.time(...))

(***************************************************************************)
(* hms_to_seconds (lines 40-69)                                            *)
(***************************************************************************)
SecondsPerDay == 86400

\* TIME_RE = ^(?:(\d+):)?(\d+):(\d+(?:\.\d+)?)$ matched left to right: a run
\* of digits, ":", a run of digits, then either ":" and the seconds (three
\* groups) or the end or a fraction (two groups).
TIME_RE(s) ==
    LET n1 == DigitRun(s)
        r1 == SubSeq(s, n1 + 1, Len(s))
        a  == IF r1 = <<>> THEN <<>> ELSE Tail(r1)
        n2 == DigitRun(a)
        r2 == SubSeq(a, n2 + 1, Len(a))
        b  == IF r2 = <<>> THEN <<>> ELSE Tail(r2)
        n3 == DigitRun(b)
        r3 == SubSeq(b, n3 + 1, Len(b))
        \* (?:\.\d+)?$ on what follows the seconds' digits
        Tail3(r) == \/ r = <<>>
                    \/ /\ Head(r) = "."
                       /\ Len(r) > 1
                       /\ DigitRun(Tail(r)) = Len(r) - 1
        Frac(r) == IF r = <<>> THEN <<>> ELSE Tail(r)
        no == [match |-> FALSE, g1 |-> None, g2 |-> <<>>, g3i |-> <<>>, g3f |-> <<>>]
    IN  IF n1 = 0 \/ r1 = <<>> \/ Head(r1) # ":" \/ n2 = 0 THEN no
        ELSE IF r2 # <<>> /\ Head(r2) = ":"
             THEN IF n3 > 0 /\ Tail3(r3)
                  THEN [match |-> TRUE, g1 |-> Some(SubSeq(s, 1, n1)),
                        g2 |-> SubSeq(a, 1, n2), g3i |-> SubSeq(b, 1, n3), g3f |-> Frac(r3)]
                  ELSE no
             ELSE IF Tail3(r2)
                  THEN [match |-> TRUE, g1 |-> None, g2 |-> SubSeq(s, 1, n1),
                        g3i |-> SubSeq(a, 1, n2), g3f |-> Frac(r2)]
                  ELSE no

hms_to_seconds(x) ==
    CASE x.k = "nan"       -> Return(Null)
      [] x.k = "timedelta" -> Return(FloatVal(x.n))
      [] x.k = "time"      ->
            Return(FloatVal((x.t[1] * 3600 + x.t[2] * 60 + x.t[3]) * Milli + x.t[4]))
      [] x.k = "int"       ->
            IF 0 < x.n /\ x.n <= 1 THEN Return(FloatVal(x.n * Milli * SecondsPerDay))
            ELSE Return(FloatVal(x.n * Milli))
      [] x.k = "float"     ->
            IF 0 < x.n /\ x.n <= Milli THEN Return(FloatVal(x.n * SecondsPerDay))
            ELSE Return(FloatVal(x.n))
      [] OTHER             ->   \* s = str(x).strip()
            LET m == TIME_RE(Strip(CellStr(x)))
            IN  IF ~m.match THEN Raise("ValueError: Unrecognized time format", x)
                ELSE LET h  == IF Truthy(m.g1) THEN DigitsToInt(m.g1.v) ELSE 0
                         mm == DigitsToInt(m.g2)
                         ss == DigitsToInt(m.g3i) * Milli + FracToMilli(m.g3f)
                     IN  Return(FloatVal((h * 3600 + mm * 60) * Milli + ss))


(***************************************************************************)
(* find_header_row, read_sheet_with_detected_header (lines 72-85).  A raw  *)
(* grid is a sequence of rows of cells; a DataFrame is its column labels   *)
(* and its rows of cells.                                                  *)
(***************************************************************************)
MaxHeaderRows == 50

AgeNeedle == <<"a", "g", "e">>

Min(a, b) == IF a <= b THEN a ELSE b

\* the 0-based index of the first row, of the first max_rows, holding a cell that
\* is or starts with the needle; None without one
find_header_row(raw_df) ==
    LET IsHeader(r) ==
            \E j \in DOMAIN raw_df[r] :
                LET v == Lower(Strip(CellStr(raw_df[r][j])))
                IN  v = AgeNeedle \/ StartsWith(v, AgeNeedle)
        hits == {r \in 1..Min(MaxHeaderRows, Len(raw_df)) : IsHeader(r)}
    IN  IF hits = {} THEN [some |-> FALSE, r |-> 0]
        ELSE [some |-> TRUE, r |-> (CHOOSE r \in hits : \A q \in hits : r <= q) - 1]

\* the label pandas gives column j (0-based) of the header row
ColumnLabel(x, j) ==
    IF x.k = "nan"
    THEN <<"U", "n", "n", "a", "m", "e", "d", ":", " ">> \o NatToStr(j)
    ELSE CellStr(x)

\* "find_header_row(raw) or 0", then the rows below the header row with the
\* header row's normalized labels as columns
read_sheet_with_detected_header(raw) ==
    LET f   == find_header_row(raw)
        hdr == IF f.some /\ f.r # 0 THEN f.r ELSE 0
    IN  IF Len(raw) <= hdr THEN [columns |-> <<>>, rows |-> <<>>]
        ELSE [columns |-> [j \in DOMAIN raw[hdr + 1] |->
                              normalize(ColumnLabel(raw[hdr + 1][j], j - 1))],
              rows    |-> SubSeq(raw, hdr + 2, Len(raw))]

(***************************************************************************)
(* find_age_col (lines 88-97)                                              *)
(***************************************************************************)
First(S) == CHOOSE i \in S : \A j \in S : i <= j

IsAgeish(c) ==
    LET cl == Lower(Strip(c))
    IN  \/ cl = AgeNeedle
        \/ StartsWith(cl, <<"a", "g", "e", " ">>)
        \/ StartsWith(cl, <<"a", "g", "e", "(">>)
        \/ StartsWith(cl, <<"a", "g", "e", "/">>)
        \/ StartsWith(cl, <<"a", "g", "e", "-">>)

\* a finder with the second loop only: the first column containing "age"
find_age_col_loose(cols) ==
    LET loose == {i \in DOMAIN cols : Contains(Lower(cols[i]), AgeNeedle)}
    IN  IF loose # {}
        THEN [ok |-> TRUE, i |-> First(loose), col |-> cols[First(loose)],
              err |-> "none", columns |-> <<>>]
        ELSE [ok |-> FALSE, i |-> 0, col |-> <<>>,
              err |-> "RuntimeError: Could not locate Age column", columns |-> cols]

\* i: the index of the column returned (0 when it raises)
find_age_col(cols) ==
    LET exact == {i \in DOMAIN cols : IsAgeish(cols[i])}
        loose == {i \in DOMAIN cols : Contains(Lower(cols[i]), AgeNeedle)}
    IN  IF exact # {} THEN [ok |-> TRUE, i |-> First(exact), col |-> cols[First(exact)],
                            err |-> "none", columns |-> <<>>]
        ELSE IF loose # {}
             THEN [ok |-> TRUE, i |-> First(loose), col |-> cols[First(loose)],
                   err |-> "none", columns |-> <<>>]
             ELSE [ok |-> FALSE, i |-> 0, col |-> <<>>,
                   err |-> "RuntimeError: Could not locate Age column", columns |-> cols]


(***************************************************************************)
(* df_to_age_event_map (lines 154-177)                                     *)
(***************************************************************************)
\* str.isdigit(): non-empty and every character a digit
IsDigitStr(s) == s # <<>> /\ \A i \in DOMAIN s : IsDigitChar(s[i])

\* a filter that also keeps signed numbers: str(x).strip().lstrip("-").isdigit()
KeepAgeSigned(x) ==
    /\ x.k # "nan"
    /\ LET s == Strip(CellStr(x))
       IN  IsDigitStr(IF s # <<>> /\ Head(s) = "-" THEN Tail(s) ELSE s)

\* the row filter of line 161: pd.notna(x) and str(x).strip().isdigit()
KeepAge(x) == x.k # "nan" /\ IsDigitStr(Strip(CellStr(x)))

\* astype(int) on a kept cell: int(x); int() of a str accepts surrounding
\* whitespace and ASCII digits, and raises ValueError on a superscript digit
AgeToInt(x) ==
    IF x.k \in {"int", "int64"} THEN [ok |-> TRUE, n |-> x.n]
    ELSE LET s == Strip(CellStr(x))
         IN  IF s # <<>> /\ \A i \in DOMAIN s : IsAsciiDigit(s[i])
             THEN [ok |-> TRUE, n |-> DigitsToInt(s)]
             ELSE [ok |-> FALSE, n |-> 0]

value_parser(name, x) ==
    IF name = "hms_to_seconds" THEN hms_to_seconds(x) ELSE num_to_int_if_whole(x)

\* mapping[key] = val
AddEntry(mapping, key, val) ==
    [k \in DOMAIN mapping \cup {key} |-> IF k = key THEN val ELSE mapping[k]]

\* a mapping that leaves out the rows whose parsed value is None
RECURSIVE BuildMappingSkipMissing(_, _)
BuildMappingSkipMissing(ages, vals) ==
    IF ages = <<>> THEN << >>
    ELSE LET rest == BuildMappingSkipMissing(SubSeq(ages, 1, Len(ages) - 1),
                                             SubSeq(vals, 1, Len(ages) - 1))
         IN  IF vals[Len(ages)].val = Null THEN rest
             ELSE AddEntry(rest, IntToStr(ages[Len(ages)]), vals[Len(ages)].val)

\* mapping[str(age)] = value_parser(v) for the rows in order (vals: the parsed
\* cells of the column): a later row of the same age replaces the earlier entry
RECURSIVE BuildMapping(_, _)
BuildMapping(ages, vals) ==
    IF ages = <<>> THEN << >>
    ELSE AddEntry(BuildMapping(SubSeq(ages, 1, Len(ages) - 1), SubSeq(vals, 1, Len(ages) - 1)),
                  IntToStr(ages[Len(ages)]), vals[Len(ages)].val)

NoTable == [ages |-> <<>>, events |-> <<>>, out |-> << >>]

TableError(kind, x, cols) ==
    [ok |-> FALSE, val |-> NoTable, err |-> kind, value |-> x, columns |-> cols]

\* the column of out[e]: out[normalize(event)] = mapping, the last such event
LastEvent(columns, events, e) ==
    CHOOSE j \in events :
        /\ normalize(columns[j]) = e
        /\ \A q \in events : normalize(columns[q]) = e => q <= j

\* lines 167-177, parsed[j][r] being value_parser(row r's cell of column j): the
\* first parser exception in loop order (events, then rows) leaves the function
ReshapeParsed(columns, ages, events, eventSeq, parsed) ==
    LET bad == {p \in events \X DOMAIN ages : ~parsed[p[1]][p[2]].ok}
    IN  IF bad # {}
        THEN LET first == CHOOSE p \in bad : \A q \in bad :
                              p[1] < q[1] \/ (p[1] = q[1] /\ p[2] <= q[2])
             IN  TableError(parsed[first[1]][first[2]].err,
                            parsed[first[1]][first[2]].value, <<>>)
        ELSE [ok |-> TRUE,
              val |-> [ages   |-> ages,
                       events |-> [i \in DOMAIN eventSeq |-> normalize(eventSeq[i])],
                       out    |-> [e \in {normalize(columns[j]) : j \in events} |->
                                     BuildMapping(ages, parsed[LastEvent(columns, events, e)])]],
              err |-> "none", value |-> NaN, columns |-> <<>>]

\* lines 162-165, conv[r] being int() of kept row r's age cell
ReshapeAges(columns, parser, a, kept, conv) ==
    IF \E r \in DOMAIN conv : ~conv[r].ok
    THEN TableError("ValueError: invalid literal for int()",
                    kept[First({r \in DOMAIN conv : ~conv[r].ok})][a.i], <<>>)
    ELSE ReshapeParsed(columns,
                       [r \in DOMAIN conv |-> conv[r].n],
                       {j \in DOMAIN columns : columns[j] # a.col},
                       SelectSeq(columns, LAMBDA c : c # a.col),
                       [j \in {j \in DOMAIN columns : columns[j] # a.col} |->
                           [r \in DOMAIN kept |-> value_parser(parser, kept[r][j])]])

\* line 161, kept being the rows the filter keeps
ReshapeKept(columns, parser, a, kept) ==
    ReshapeAges(columns, parser, a, kept,
                [r \in DOMAIN kept |-> AgeToInt(kept[r][a.i])])

\* line 158, a being what find_age_col returned or raised
Reshape(df, parser, a) ==
    IF ~a.ok THEN TableError(a.err, NaN, a.columns)
    ELSE ReshapeKept(df.columns, parser, a,
                     SelectSeq(df.rows, LAMBDA row : KeepAge(row[a.i])))

df_to_age_event_map(df, parser) == Reshape(df, parser, find_age_col(df.columns))

(***************************************************************************)
(* Paths.  A path is the sequence of its parts below ROOT; a workbook is   *)
(* its sheet names, in workbook order, and each sheet's raw grid.          *)
(***************************************************************************)
Name(path) == path[Len(path)]

ParentName(path) == IF Len(path) > 1 THEN path[Len(path) - 1] ELSE <<>>

\* PurePath.with_suffix: the name's last "." (not its first character) starts the
\* suffix that is replaced
with_suffix(path, suffix) ==
    LET name == Name(path)
        dots == {i \in 2..Len(name) : name[i] = "."}
        stem == IF dots = {} THEN name
                ELSE SubSeq(name, 1, (CHOOSE i \in dots : \A j \in dots : j <= i) - 1)
    IN  SubSeq(path, 1, Len(path) - 1) \o <<stem \o suffix>>

\* str < str, by code point
RECURSIVE StrLess(_, _)
StrLess(a, b) ==
    IF b = <<>> THEN FALSE
    ELSE IF a = <<>> THEN TRUE
    ELSE IF Head(a) # Head(b) THEN Ord(Head(a)) < Ord(Head(b))
    ELSE StrLess(Tail(a), Tail(b))

\* Path < Path: the parts compared as lists
RECURSIVE PathLess(_, _)
PathLess(p, q) ==
    IF q = <<>> THEN FALSE
    ELSE IF p = <<>> THEN TRUE
    ELSE IF Head(p) # Head(q) THEN StrLess(Head(p), Head(q))
    ELSE PathLess(Tail(p), Tail(q))

\* sorted(files)
RECURSIVE sorted(_)
sorted(S) ==
    IF S = {} THEN <<>>
    ELSE LET least == CHOOSE p \in S : \A q \in S \ {p} : PathLess(p, q)
         IN  <<least>> \o sorted(S \ {least})

(***************************************************************************)
(* convert_one (lines 180-227)                                             *)
(***************************************************************************)
JsonSuffix == <<".", "j", "s", "o", "n">>

FemaleNeedle == <<"f", "e", "m", "a", "l", "e">>

NoDoc == [meta |-> << >>, AgeStdSec |-> NoTable, AgeStdHMS |-> NoTable,
          AgeStdFactors |-> NoTable]

ConvertError(kind, rd, missing, available, x, cols) ==
    [ok |-> FALSE, out_path |-> <<>>, doc |-> NoDoc, reads |-> rd,
     err |-> [kind |-> kind, missing |-> missing, available |-> available,
              value |-> x, columns |-> cols]]

\* "int(year) if year.isdigit() else year"
Year(year) ==
    IF ~IsDigitStr(year) THEN [ok |-> TRUE, val |-> [k |-> "str", n |-> 0, s |-> year]]
    ELSE IF \A i \in DOMAIN year : IsAsciiDigit(year[i])
         THEN [ok |-> TRUE, val |-> [k |-> "int", n |-> DigitsToInt(year), s |-> <<>>]]
         ELSE [ok |-> FALSE, val |-> [k |-> "str", n |-> 0, s |-> year]]

NoConvertError ==
    [kind |-> "none", missing |-> <<>>, available |-> <<>>, value |-> NaN, columns |-> <<>>]

TableFailed(r, rd) == ConvertError(r.err, rd, <<>>, <<>>, r.value, r.columns)

\* lines 200-227: the document assembled and written
ConvertTables(path, sheets, rd, t_sec, t_hms, t_fac, y) ==
    IF ~t_sec.ok THEN TableFailed(t_sec, rd)
    ELSE IF ~t_hms.ok THEN TableFailed(t_hms, rd)
    ELSE IF ~t_fac.ok THEN TableFailed(t_fac, rd)
    ELSE IF ~y.ok
    THEN ConvertError("ValueError: invalid literal for int()", rd,
                      <<>>, <<>>, StrCell(ParentName(path)), <<>>)
    ELSE [ok       |-> TRUE,
          out_path |-> with_suffix(path, JsonSuffix),
          doc      |-> [meta |-> [category |-> "road", year |-> y.val,
                                  sex |-> IF Contains(Lower(Name(path)), FemaleNeedle)
                                          THEN "F" ELSE "M",
                                  source_file |-> path, sheets_used |-> sheets],
                        AgeStdSec     |-> t_sec.val,
                        AgeStdHMS     |-> t_hms.val,
                        AgeStdFactors |-> t_fac.val],
          reads    |-> rd,
          err      |-> NoConvertError]

\* lines 187-198: the three sheets read (factors, sec, hms) and reshaped (sec, hms,
\* factors)
ConvertSheets(path, wb, sheets) ==
    ConvertTables(path, sheets, <<sheets.factors, sheets.sec, sheets.hms>>,
        df_to_age_event_map(read_sheet_with_detected_header(wb.grid[sheets.sec]),
                            "num_to_int_if_whole"),
        df_to_age_event_map(read_sheet_with_detected_header(wb.grid[sheets.hms]),
                            "hms_to_seconds"),
        df_to_age_event_map(read_sheet_with_detected_header(wb.grid[sheets.factors]),
                            "num_to_int_if_whole"),
        Year(ParentName(path)))

\* line 185, sh being what choose_sheets returned or raised
ConvertChosen(path, wb, sh) ==
    IF ~sh.ok
    THEN ConvertError(sh.err.kind, <<>>, sh.err.missing, sh.err.available, NaN, <<>>)
    ELSE ConvertSheets(path, wb, sh.val)

\* The call's result: the path and document written, or the exception raised; and
\* the sheets read on the way, in order.
convert_one(path, wb) == ConvertChosen(path, wb, choose_sheets(wb.sheet_names))

(***************************************************************************)
(* The inputs of the batch run: a few paths and a few workbooks.           *)
(***************************************************************************)
STANDARDS_DIR == <<"a", "g", "e", "_", "g", "r", "a", "d", "e", "_", "s", "t", "a", "n", "d", "a", "r", "d", "s">>

S_Age == <<"A", "g", "e">>

S_age == <<"a", "g", "e">>

S_Year == <<"Y", "e", "a", "r">>

S_5km == <<"5", " ", "k", "m">>

S_Marathon == <<"M", "a", "r", "a", "t", "h", "o", "n">>

S_Road == <<"R", "o", "a", "d">>

G_Sec ==
    << <<StrCell(S_Age), StrCell(S_5km), StrCell(S_Marathon)>>,
       <<IntCell(5), FloatCell(1225000), IntCell(9000)>>,
       <<IntCell(6), FloatCell(1200500), NaN>> >>

G_Hms ==
    << <<StrCell(S_Age), StrCell(S_5km), StrCell(S_Marathon)>>,
       <<IntCell(5), StrCell(<<"2", "0", ":", "2", "5">>), TimeCell(2, 30, 0, 0)>>,
       <<IntCell(6), StrCell(<<"1", ":", "0", "3", ":", "0", "5", ".", "5">>), NaN>> >>

G_Fac ==
    << <<StrCell(S_Road), NaN, NaN>>,
       <<StrCell(S_age), StrCell(S_5km), StrCell(S_Marathon)>>,
       <<IntCell(5), FloatCell(1000), FloatCell(987)>>,
       <<IntCell(6), FloatCell(995), NaN>> >>

G_NoAge ==
    << <<StrCell(S_Year), StrCell(S_5km)>>,
       <<IntCell(5), FloatCell(1225000)>> >>

G_BadHms ==
    << <<StrCell(S_Age), StrCell(S_5km)>>,
       <<IntCell(5), StrCell(<<"a", "b", "c">>)>> >>

Sheets3(factors, sec, hms, gf, gs, gh) ==
    [sheet_names |-> <<factors, sec, hms>>,
     grid |-> [n \in {factors, sec, hms} |->
                  IF n = factors THEN gf ELSE IF n = sec THEN gs ELSE gh]]

WorkbookIds == {"good", "nohms", "badtime", "noage"}

Workbook(id) ==
    CASE id = "good"     -> Sheets3(N_AgeStdFactors, N_AgeStdSec, N_AgeStdHMS, G_Fac, G_Sec, G_Hms)
      [] id = "nohms"    -> [sheet_names |-> <<N_AgeStdSec, N_AgeStdFactors>>,
                             grid |-> [n \in {N_AgeStdSec, N_AgeStdFactors} |->
                                          IF n = N_AgeStdSec THEN G_Sec ELSE G_Fac]]
      [] id = "badtime"  -> Sheets3(N_AgeStdFactors, N_AgeStdSec, N_AgeStdHMS, G_Fac, G_Sec, G_BadHms)
      [] id = "noage"    -> Sheets3(N_AgeStdFactors, N_AgeStdSec, N_AgeStdHMS, G_Fac, G_NoAge, G_Hms)

PathPool ==
    { <<STANDARDS_DIR, <<"2", "0", "1", "9">>, <<"R", "o", "a", "d", "S", "t", "d", ".", "x", "l", "s">>>>,
      <<STANDARDS_DIR, <<"2", "0", "1", "9">>, <<"R", "o", "a", "d", "S", "t", "d", ".", "x", "l", "s", "x">>>>,
      <<STANDARDS_DIR, <<"2", "0", "2", "5">>, <<"F", "e", "m", "a", "l", "e", "R", "o", "a", "d", "S", "t", "d", ".", "x", "l", "s", "x">>>>,
      <<STANDARDS_DIR, <<"2", "0", "2", "5">>, <<"n", "o", "t", "e", "s", ".", "x", "l", "s", "x">>>>,
      <<STANDARDS_DIR, <<"r", "o", "a", "d", "s", "t", "d", "_", "m", ".", "x", "l", "s">>>> }

\* the most files under STANDARDS_DIR
MaxFiles == 3

Trees ==
    UNION { [S -> WorkbookIds] : S \in {T \in SUBSET PathPool : Cardinality(T) <= MaxFiles} }

(***************************************************************************)
(* main (lines 230-248)                                                    *)
(***************************************************************************)
XlsPattern == <<".", "x", "l", "s">>

XlsxPattern == <<".", "x", "l", "s", "x">>

RoadStdNeedle == <<"r", "o", "a", "d", "s", "t", "d">>

\* STANDARDS_DIR.rglob("*.xls") and rglob("*.xlsx"), then the roadstd filter
Matching(t) ==
    {p \in DOMAIN t :
        /\ EndsWith(Name(p), XlsPattern) \/ EndsWith(Name(p), XlsxPattern)
        /\ Contains(Lower(Name(p)), RoadStdNeedle)}

Reverse(s) == [i \in DOMAIN s |-> s[Len(s) + 1 - i]]

\* a loop over the files in descending order
LoopOrderDescending(S) == Reverse(sorted(S))

\* the loop's order
LoopOrder(S) == sorted(S)

Init ==
    /\ pc = "start"
    /\ arg = <<>>
    /\ ret = <<>>
    /\ tree \in Trees
    /\ files = {}
    /\ todo = <<>>
    /\ disk = << >>
    /\ writes = <<>>
    /\ reads = <<>>
    /\ stdout = <<>>

\* lines 231-239: nothing matches, SystemExit
DiscoverNone ==
    /\ pc = "start"
    /\ Matching(tree) = {}
    /\ pc' = "SystemExit"
    /\ files' = {}
    /\ UNCHANGED <<arg, ret, tree, todo, disk, writes, reads, stdout>>

\* lines 231-242: the matching files, the count printed, the loop entered
DiscoverSome ==
    /\ pc = "start"
    /\ Matching(tree) # {}
    /\ files' = Matching(tree)
    /\ stdout' = Append(stdout, [tag |-> "Found", n |-> Cardinality(Matching(tree)),
                                 path |-> <<>>, out |-> <<>>])
    /\ todo' = LoopOrder(Matching(tree))
    /\ pc' = "loop"
    /\ UNCHANGED <<arg, ret, tree, disk, writes, reads>>

\* p converted, r being what convert_one(p) returned (lines 244-245) or raised
\* (lines 246-248)
Converted(p, r) ==
    /\ arg' = p
    /\ ret' = r
    /\ reads' = reads \o [i \in DOMAIN r.reads |-> <<p, r.reads[i]>>]
    /\ IF r.ok
       THEN /\ disk' = AddEntry(disk, r.out_path, [source |-> p, doc |-> r.doc])
            /\ writes' = Append(writes, [source |-> p, out_path |-> r.out_path])
            /\ stdout' = Append(stdout, [tag |-> "OK", n |-> 0, path |-> Name(p),
                                         out |-> Name(r.out_path)])
            /\ todo' = Tail(todo)
            /\ pc' = pc
       ELSE /\ stdout' = Append(stdout, [tag |-> "FAIL", n |-> 0, path |-> p, out |-> <<>>])
            /\ pc' = "raised"
            /\ UNCHANGED <<todo, disk, writes>>
    /\ UNCHANGED <<tree, files>>

\* one turn of the loop of lines 242-248
Convert ==
    /\ pc = "loop"
    /\ todo # <<>>
    /\ Converted(Head(todo), convert_one(Head(todo), Workbook(tree[Head(todo)])))

\* the loop is exhausted: main returns
Finish ==
    /\ pc = "loop"
    /\ todo = <<>>
    /\ pc' = "done"
    /\ UNCHANGED <<arg, ret, tree, files, todo, disk, writes, reads, stdout>>

Next == DiscoverNone \/ DiscoverSome \/ Convert \/ Finish

Spec == Init /\ [][Next]_vars


(***************************************************************************)
(* The batch driver's claims.                                              *)
(***************************************************************************)
Sources(w) == {w[i].source : i \in DOMAIN w}

Before(p) == {q \in files : PathLess(q, p)}

Fails(p) == ~convert_one(p, Workbook(tree[p])).ok

\* C1: the files are converted one at a time in ascending path order and the
\* batch aborts on the first failure: when convert_one raises on a file, exactly
\* the files before it in path order have been written (once each, in order), it
\* has written nothing, no later file has been read or written, and main ends
\* raised; main returns normally only when no file fails, every file written.
C1_AbortOnFirstFailure ==
    /\ \A i, j \in DOMAIN writes : i < j => PathLess(writes[i].source, writes[j].source)
    /\ pc = "raised" =>
          /\ ~ret.ok /\ arg \in files /\ Fails(arg)
          /\ Sources(writes) = Before(arg)
          /\ Len(writes) = Cardinality(Before(arg))
          /\ \A q \in Before(arg) : ~Fails(q)
          /\ \A q \in DOMAIN disk : disk[q].source # arg
          /\ \A i \in DOMAIN reads : reads[i][1] = arg \/ reads[i][1] \in Before(arg)
          /\ stdout[Len(stdout)].tag = "FAIL" /\ stdout[Len(stdout)].path = arg
    /\ pc = "done" =>
          /\ \A p \in files : ~Fails(p)
          /\ Sources(writes) = files
          /\ Len(writes) = Cardinality(files)

\* a run that fails on a file with a converted file before it and an unreached
\* file after it
C1_Witness ==
    /\ pc = "raised"
    /\ Len(writes) >= 1
    /\ \E p \in files : PathLess(arg, p)

\* C2: after a run in which every conversion succeeds there is one JSON file per
\* input workbook: distinct inputs are written to distinct output paths.
C2_OneOutputPerInput ==
    pc = "done" =>
        /\ \A i, j \in DOMAIN writes : i # j => writes[i].out_path # writes[j].out_path
        /\ Cardinality(DOMAIN disk) = Cardinality(files)


(***************************************************************************)
(* convert_one on one workbook, over the sheet names a workbook can have.  *)
(* Every sheet holds the same well-formed numeric grid, so that only sheet *)
(* resolution decides the call.                                            *)
(***************************************************************************)
N_age_std_sec == <<"a", "g", "e", "-", "s", "t", "d", "-", "s", "e", "c">>

N_Factor_Sec_HMS == <<"F", "a", "c", "t", "o", "r", " ", "S", "e", "c", " ", "H", "M", "S">>

N_Sheet1 == <<"S", "h", "e", "e", "t", "1">>

SheetPool ==
    { N_AgeStdFactors, N_Age_Facctors, N_AgeStdSec, N_AgeStanSec, N_AgeStdHMS,
      N_AgeStanHMS, N_age_std_sec, N_Factor_Sec_HMS, N_Sheet1 }

\* the most sheets of a workbook
MaxSheets == 3

BoundedSeqs(S, n) == UNION {[1..k -> S] : k \in 0..n}

\* a workbook's sheet names differ, whatever their case
SheetLists ==
    {s \in BoundedSeqs(SheetPool, MaxSheets) :
        \A i, j \in DOMAIN s : i # j => Lower(s[i]) # Lower(s[j])}

G_Num ==
    << <<StrCell(S_Age), StrCell(S_5km)>>,
       <<Int64Cell(5), FloatCell(1225000)>> >>

SheetsPath == <<STANDARDS_DIR, <<"2", "0", "2", "5">>, <<"F", "e", "m", "a", "l", "e", "R", "o", "a", "d", "S", "t", "d", ".", "x", "l", "s", "x">>>>

InitSheets ==
    /\ pc = "call"
    /\ \E s \in SheetLists :
          arg = [path |-> SheetsPath,
                 wb   |-> [sheet_names |-> s, grid |-> [n \in Range(s) |-> G_Num]]]
    /\ ret = <<>>
    /\ tree = << >>
    /\ files = {}
    /\ todo = <<>>
    /\ disk = << >>
    /\ writes = <<>>
    /\ reads = <<>>
    /\ stdout = <<>>

\* convert_one(path) returned or raised r
Called(p, r) ==
    /\ ret' = r
    /\ reads' = reads \o [i \in DOMAIN r.reads |-> <<p, r.reads[i]>>]
    /\ disk' = IF r.ok THEN AddEntry(disk, r.out_path, [source |-> p, doc |-> r.doc])
               ELSE disk
    /\ writes' = IF r.ok THEN Append(writes, [source |-> p, out_path |-> r.out_path])
                 ELSE writes
    /\ pc' = "return"
    /\ UNCHANGED <<arg, tree, files, todo, stdout>>

CallConvertOne ==
    /\ pc = "call"
    /\ Called(arg.path, convert_one(arg.path, arg.wb))

NextSheets == CallConvertOne

SpecSheets == InitSheets /\ [][NextSheets]_vars

(***************************************************************************)
(* The sheet resolver's claims.                                            *)
(***************************************************************************)
\* a name lower-cased with everything but a-z and 0-9 removed
KeyOf(s) == SelectSeq(Lower(s), LAMBDA c : c \in Range(LowerCase) \cup Range(AsciiDigits))

RoleAliases(role) ==
    CASE role = "factors" -> << <<"a", "g", "e", "s", "t", "d", "f", "a", "c", "t", "o", "r", "s">>,
                                <<"a", "g", "e", "f", "a", "c", "t", "o", "r", "s">>,
                                <<"a", "g", "e", "f", "a", "c", "t", "o", "r", "s">>,
                                <<"a", "g", "e", "f", "a", "c", "c", "t", "o", "r", "s">> >>
      [] role = "sec"     -> << <<"a", "g", "e", "s", "t", "d", "s", "e", "c">>,
                                <<"a", "g", "e", "s", "t", "a", "n", "s", "e", "c">> >>
      [] role = "hms"     -> << <<"a", "g", "e", "s", "t", "d", "h", "m", "s">>,
                                <<"a", "g", "e", "s", "t", "a", "n", "h", "m", "s">> >>

RoleNeedle(role) ==
    CASE role = "factors" -> <<"f", "a", "c", "t", "o", "r">>
      [] role = "sec"     -> <<"s", "e", "c">>
      [] role = "hms"     -> <<"h", "m", "s">>

Roles == <<"factors", "sec", "hms">>

AliasHits(role, sheets) ==
    {a \in DOMAIN RoleAliases(role) : \E i \in DOMAIN sheets : KeyOf(sheets[i]) = RoleAliases(role)[a]}

NeedleHits(role, sheets) ==
    {i \in DOMAIN sheets : Contains(Lower(sheets[i]), RoleNeedle(role))}

Unresolved(role, sheets) == AliasHits(role, sheets) = {} /\ NeedleHits(role, sheets) = {}

\* what the claim says role resolves to
ResolvesAsClaimed(role, sheets, chosen) ==
    IF AliasHits(role, sheets) # {}
    THEN /\ \E i \in DOMAIN sheets : sheets[i] = chosen
         /\ KeyOf(chosen) = RoleAliases(role)[First(AliasHits(role, sheets))]
    ELSE /\ NeedleHits(role, sheets) # {}
         /\ chosen = sheets[First(NeedleHits(role, sheets))]

TypoExample == <<N_Age_Facctors, N_AgeStanSec, N_AgeStanHMS>>

\* C3: each role resolves with alias matching taking strict priority over substring
\* matching: with an alias match, to a sheet whose normalized name is the earliest
\* matching alias of the role's list, whatever the sheets' order; without one, to
\* the first sheet in workbook order whose lower-cased name contains the role's
\* substring.  ["Age Facctors", "AgeStanSec", "AgeStanHMS"] resolves all three.
C3_AliasBeforeSubstring ==
    pc = "return" =>
        /\ ret.ok =>
              \A r \in 1..3 :
                  ResolvesAsClaimed(Roles[r], arg.wb.sheet_names,
                                    ret.doc.meta.sheets_used[Roles[r]])
        /\ arg.wb.sheet_names = TypoExample =>
              /\ ret.ok
              /\ ret.doc.meta.sheets_used =
                    [factors |-> N_Age_Facctors, sec |-> N_AgeStanSec, hms |-> N_AgeStanHMS]

\* a sheet containing "sec" and the sheet of the role's second alias precede the
\* sheet of its first alias, which is the one resolved; the other two roles fall
\* back to the substring pass
C3_Witness ==
    /\ pc = "return"
    /\ ret.ok
    /\ arg.wb.sheet_names = <<N_Factor_Sec_HMS, N_AgeStanSec, N_AgeStdSec>>
    /\ ret.doc.meta.sheets_used =
          [factors |-> N_Factor_Sec_HMS, sec |-> N_AgeStdSec, hms |-> N_Factor_Sec_HMS]

\* C4: whenever choose_sheets returns, the three roles name sheets of the workbook
\* that are pairwise different.
C4_ThreeDistinctSheets ==
    pc = "return" /\ ret.ok =>
        LET u == ret.doc.meta.sheets_used
        IN  /\ {u.factors, u.sec, u.hms} \subseteq Range(arg.wb.sheet_names)
            /\ u.factors # u.sec /\ u.factors # u.hms /\ u.sec # u.hms

\* C5: choose_sheets raises exactly when some role is matched neither by an alias
\* nor by the substring pass; the error names every unresolved role and lists
\* all the sheet names; nothing is returned, no sheet is read and nothing written.
C5_MissingSheetsRaise ==
    pc = "return" =>
        LET sheets  == arg.wb.sheet_names
            missing == SelectSeq(Roles, LAMBDA r : Unresolved(r, sheets))
        IN  /\ (ret.err.kind = "RuntimeError: missing sheets") <=> (missing # <<>>)
            /\ missing # <<>> =>
                  /\ ~ret.ok
                  /\ ret.err.missing = missing
                  /\ ret.err.available = sheets
                  /\ ret.doc = NoDoc /\ ret.out_path = <<>>
                  /\ ret.reads = <<>> /\ reads = <<>>
                  /\ writes = <<>> /\ disk = << >>
            /\ missing = <<>> => ret.ok /\ Len(reads) = 3 /\ Len(writes) = 1

\* a workbook with a factors sheet only: sec and hms are reported missing
C5_Witness ==
    /\ pc = "return"
    /\ ~ret.ok
    /\ arg.wb.sheet_names = <<N_Sheet1, N_AgeStdFactors>>
    /\ ret.err.missing = <<"sec", "hms">>


(***************************************************************************)
(* find_age_col over the column names a sheet can have.                    *)
(***************************************************************************)
ColumnPool ==
    { S_Age, S_Year, S_5km,
      <<"A", "G", "E", " ", "(", "y", "r", "s", ")">>,
      <<" ", "a", "g", "e", " ">>,
      <<"S", "t", "a", "g", "e">>,
      <<"A", "g", "e", "s">>,
      <<"a", "g", "e", "-", "g", "r", "p">>,
      <<"A", "g", "e", "/", "S", "e", "x">>,
      <<"M", "i", "l", "e", "a", "g", "e">> }

\* the most columns of a sheet
MaxCols == 3

ColumnLists ==
    {c \in BoundedSeqs(ColumnPool, MaxCols) : \A i, j \in DOMAIN c : i # j => c[i] # c[j]}

InitAgeCol ==
    /\ pc = "call"
    /\ arg \in ColumnLists
    /\ ret = <<>>
    /\ tree = << >>
    /\ files = {}
    /\ todo = <<>>
    /\ disk = << >>
    /\ writes = <<>>
    /\ reads = <<>>
    /\ stdout = <<>>

CallFindAgeCol ==
    /\ pc = "call"
    /\ ret' = find_age_col(arg)
    /\ pc' = "return"
    /\ UNCHANGED <<arg, tree, files, todo, disk, writes, reads, stdout>>

NextAgeCol == CallFindAgeCol

SpecAgeCol == InitAgeCol /\ [][NextAgeCol]_vars

\* the first rule: stripped and lower-cased, "age" or "age" and one of " (/-"
PreferredAge(c) ==
    LET cl == Lower(Strip(c))
    IN  /\ Len(cl) >= 3
        /\ SubSeq(cl, 1, 3) = <<"a", "g", "e">>
        /\ Len(cl) > 3 => cl[4] \in {" ", "(", "/", "-"}

\* the second rule: lower-cased, "age" anywhere
MentionsAge(c) ==
    \E i \in 1..(Len(c) - 2) : SubSeq(Lower(c), i, i + 2) = <<"a", "g", "e">>

\* C6: find_age_col returns the first column, in column order, that the first
\* rule accepts, even after a column that merely contains "age"; without one,
\* the first column containing "age"; it raises, reporting all the column
\* names, exactly when no column contains "age".
C6_AgeColumnPriority ==
    pc = "return" =>
        LET preferred == {i \in DOMAIN arg : PreferredAge(arg[i])}
            mentions  == {i \in DOMAIN arg : MentionsAge(arg[i])}
        IN  /\ preferred # {} =>
                  ret.ok /\ ret.i = First(preferred) /\ ret.col = arg[First(preferred)]
            /\ preferred = {} /\ mentions # {} =>
                  ret.ok /\ ret.i = First(mentions) /\ ret.col = arg[First(mentions)]
            /\ ~ret.ok <=> mentions = {}
            /\ ~ret.ok => ret.columns = arg

\* "Stage" comes first and "AGE (yrs)" is returned
C6_Witness ==
    /\ pc = "return"
    /\ Len(arg) = 3
    /\ arg[1] = <<"S", "t", "a", "g", "e">>
    /\ arg[3] = <<"A", "G", "E", " ", "(", "y", "r", "s", ")">>
    /\ ~MentionsAge(arg[2])
    /\ ret.ok /\ ret.i = 3


(***************************************************************************)
(* df_to_age_event_map over the rows a sheet can have: an age column and   *)
(* one event column.                                                       *)
(***************************************************************************)
S_5 == <<"5">>

S_6 == <<"6">>

S_abc == <<"a", "b", "c">>

S_0_spaced == <<" ", "0", " ">>

S_5sup2 == <<"5", "sup2">>

S_2025 == <<"2", "0", ":", "2", "5">>

RowPool ==
    { <<StrCell(S_5), FloatCell(1225000)>>,
      <<StrCell(S_6), NaN>>,
      <<StrCell(S_abc), IntCell(7)>>,
      <<StrCell(<<>>), FloatCell(1000)>>,
      <<IntCell(5), NaN>>,
      <<NaN, FloatCell(1500)>>,
      <<StrCell(S_0_spaced), StrCell(S_2025)>>,
      <<StrCell(S_5sup2), FloatCell(2000)>>,
      <<IntCell(-5), FloatCell(3000)>>,
      <<FloatCell(7000), FloatCell(987)>> }

\* the most rows of a sheet
MaxRows == 3

\* the age cells "5", "6", "abc", ""
ExampleRows ==
    << <<StrCell(S_5), FloatCell(1225000)>>, <<StrCell(S_6), NaN>>,
       <<StrCell(S_abc), IntCell(7)>>, <<StrCell(<<>>), FloatCell(1000)>> >>

TableColumns == <<S_Age, S_5km>>

InitTable ==
    /\ pc = "call"
    /\ \E rows \in BoundedSeqs(RowPool, MaxRows) \cup {ExampleRows},
          parser \in {"num_to_int_if_whole", "hms_to_seconds"} :
          arg = [df |-> [columns |-> TableColumns, rows |-> rows], parser |-> parser]
    /\ ret = <<>>
    /\ tree = << >>
    /\ files = {}
    /\ todo = <<>>
    /\ disk = << >>
    /\ writes = <<>>
    /\ reads = <<>>
    /\ stdout = <<>>

CallDfToAgeEventMap ==
    /\ pc = "call"
    /\ ret' = df_to_age_event_map(arg.df, arg.parser)
    /\ pc' = "return"
    /\ UNCHANGED <<arg, tree, files, todo, disk, writes, reads, stdout>>

NextTable == CallDfToAgeEventMap

SpecTable == InitTable /\ [][NextTable]_vars

(***************************************************************************)
(* The table reshaper's claims.                                            *)
(***************************************************************************)
\* an age cell that is present and whose stripped string form is all digits
DigitStringAge(x) ==
    /\ x.k # "nan"
    /\ Strip(CellStr(x)) # <<>>
    /\ \A i \in DOMAIN Strip(CellStr(x)) : IsDigitChar(Strip(CellStr(x))[i])

\* the rows of the argument with such an age cell, in row order
KeptRows == SelectSeq(arg.df.rows, LAMBDA row : DigitStringAge(row[1]))

\* the integer a kept age cell stands for
AgeValue(x) == IF x.k = "str" THEN DigitsToInt(Strip(x.s)) ELSE x.n

Event == S_5km

\* C7: exactly the rows with a present, all-digit age cell are kept and no age
\* cell makes the call raise; the ages are those rows' integers, in row order,
\* repeats kept.  The age cells "5", "6", "abc", "" give [5, 6].
C7_KeepDigitAges ==
    pc = "return" =>
        /\ ret.err # "ValueError: invalid literal for int()"
        /\ ret.ok => ret.val.ages = [i \in DOMAIN KeptRows |-> AgeValue(KeptRows[i][1])]
        /\ arg.df.rows = ExampleRows => ret.ok /\ ret.val.ages = <<5, 6>>

\* C8: in every table produced the ages are distinct positive integers.
C8_DistinctPositiveAges ==
    pc = "return" /\ ret.ok =>
        /\ \A i, j \in DOMAIN ret.val.ages : i # j => ret.val.ages[i] # ret.val.ages[j]
        /\ \A i \in DOMAIN ret.val.ages : ret.val.ages[i] > 0

\* C8 as amended: in every table produced the ages are integers that are not
\* negative, one for each kept row; an age may be 0 and may occur twice.
C8_NonNegativeAges ==
    pc = "return" /\ ret.ok =>
        /\ \A i \in DOMAIN ret.val.ages : ret.val.ages[i] >= 0
        /\ Len(ret.val.ages) = Len(KeptRows)

\* a table produced with the age 5 twice and the age 0
C8_Witness ==
    /\ pc = "return"
    /\ ret.ok
    /\ ret.val.ages = <<5, 5, 0>>

\* C10: a kept row whose cell in an event column is missing has no key in that
\* event's inner map: the keys are the string ages of the kept rows with a value.
C10_MissingCellsOmitted ==
    pc = "return" /\ ret.ok =>
        DOMAIN ret.val.out[Event] =
            {IntToStr(AgeValue(KeptRows[i][1])) : i \in {i \in DOMAIN KeptRows : KeptRows[i][2].k # "nan"}}

\* C10 as amended: the keys of an event's inner map are the string ages of all
\* the kept rows; a kept row whose cell is missing maps its age to null, unless
\* a later kept row has the same age.
C10_MissingCellsNull ==
    pc = "return" /\ ret.ok =>
        /\ DOMAIN ret.val.out[Event] =
              {IntToStr(AgeValue(KeptRows[i][1])) : i \in DOMAIN KeptRows}
        /\ \A i \in DOMAIN KeptRows :
              /\ KeptRows[i][2].k = "nan"
              /\ \A j \in DOMAIN KeptRows :
                     j > i => AgeValue(KeptRows[j][1]) # AgeValue(KeptRows[i][1])
              => ret.val.out[Event][IntToStr(AgeValue(KeptRows[i][1]))] = Null

\* a table produced from a kept row with a missing cell: its age maps to null
C10_Witness ==
    /\ pc = "return"
    /\ ret.ok
    /\ Len(KeptRows) = 2
    /\ KeptRows[1] = <<StrCell(S_5), FloatCell(1225000)>>
    /\ KeptRows[2] = <<StrCell(S_6), NaN>>
    /\ ret.val.out[Event][S_6] = Null


(***************************************************************************)
(* hms_to_seconds over plain numeric and string cells.                     *)
(***************************************************************************)
TimeAlphabet == {"0", "7", ":", ".", " "}

\* the longest string of the alphabet tried
MaxStrLen == 5

S_1_03_05_5 == <<"1", ":", "0", "3", ":", "0", "5", ".", "5">>

S_99_99 == <<"9", "9", ":", "9", "9">>

S_5sup2_00 == <<"5", "sup2", ":", "0", "0">>

CellPool ==
    {NaN}
    \cup {IntCell(n) : n \in {-1, 0, 1, 2, 1225}}
    \cup {Int64Cell(n) : n \in {0, 1, 1225}}
    \cup {FloatCell(m) : m \in {-500, 0, 1, 500, 1000, 1001, 1500, 1225000}}
    \cup {StrCell(s) : s \in BoundedSeqs(TimeAlphabet, MaxStrLen)}
    \cup {StrCell(S_2025), StrCell(S_1_03_05_5), StrCell(S_99_99), StrCell(S_abc),
          StrCell(S_5sup2_00)}

InitHms ==
    /\ pc = "call"
    /\ arg \in CellPool
    /\ ret = <<>>
    /\ tree = << >>
    /\ files = {}
    /\ todo = <<>>
    /\ disk = << >>
    /\ writes = <<>>
    /\ reads = <<>>
    /\ stdout = <<>>

CallHmsToSeconds ==
    /\ pc = "call"
    /\ ret' = hms_to_seconds(arg)
    /\ pc' = "return"
    /\ UNCHANGED <<arg, tree, files, todo, disk, writes, reads, stdout>>

NextHms == CallHmsToSeconds

SpecHms == InitHms /\ [][NextHms]_vars

(***************************************************************************)
(* The time transform's claim.                                             *)
(***************************************************************************)
AllDigits(s) == s # <<>> /\ \A i \in DOMAIN s : s[i] \in Range(AsciiDigits)

\* seconds[.fraction]
IsSecondsField(s) ==
    \/ AllDigits(s)
    \/ \E d \in DOMAIN s :
          s[d] = "." /\ AllDigits(SubSeq(s, 1, d - 1)) /\ AllDigits(SubSeq(s, d + 1, Len(s)))

\* the thousandths of a seconds field
SecondsField(s) ==
    IF AllDigits(s) THEN DigitsToInt(s) * Milli
    ELSE LET d == CHOOSE d \in DOMAIN s : s[d] = "."
         IN  DigitsToInt(SubSeq(s, 1, d - 1)) * Milli
             + (DigitsToInt(SubSeq(s, d + 1, Len(s))) * Milli) \div Pow10(Len(s) - d)

\* [hours:]minutes:seconds[.fraction], split at its colons
Colons(s) == {i \in DOMAIN s : s[i] = ":"}

IsTimeString(s) ==
    \/ \E c \in Colons(s) :
          /\ Colons(s) = {c}
          /\ AllDigits(SubSeq(s, 1, c - 1))
          /\ IsSecondsField(SubSeq(s, c + 1, Len(s)))
    \/ \E c1, c2 \in Colons(s) :
          /\ c1 < c2 /\ Colons(s) = {c1, c2}
          /\ AllDigits(SubSeq(s, 1, c1 - 1))
          /\ AllDigits(SubSeq(s, c1 + 1, c2 - 1))
          /\ IsSecondsField(SubSeq(s, c2 + 1, Len(s)))

\* hours * 3600 + minutes * 60 + seconds, in thousandths
TimeStringSeconds(s) ==
    LET c1 == CHOOSE c \in Colons(s) : \A d \in Colons(s) : c <= d
        c2 == CHOOSE c \in Colons(s) : \A d \in Colons(s) : d <= c
    IN  IF c1 = c2
        THEN DigitsToInt(SubSeq(s, 1, c1 - 1)) * 60 * Milli
             + SecondsField(SubSeq(s, c1 + 1, Len(s)))
        ELSE DigitsToInt(SubSeq(s, 1, c1 - 1)) * 3600 * Milli
             + DigitsToInt(SubSeq(s, c1 + 1, c2 - 1)) * 60 * Milli
             + SecondsField(SubSeq(s, c2 + 1, Len(s)))

\* C9: for plain numeric and string cells: a missing cell gives null; a number v
\* with 0 < v <= 1 gives v * 86400 and any other number is returned unchanged; a
\* string [hours:]minutes:seconds[.fraction] (surrounding whitespace aside) gives
\* hours * 3600 + minutes * 60 + seconds, with no upper bound on minutes or
\* seconds ("20:25" gives 1225, "1:03:05.5" gives 3785.5); any other string
\* raises an error carrying the value and gives no result.
C9_TimeToSeconds ==
    pc = "return" =>
        /\ arg.k = "nan" => ret.ok /\ ret.val = Null
        /\ arg.k \in {"int", "int64"} =>
              /\ ret.ok
              /\ ret.val = FloatVal(IF arg.n = 1 THEN 86400 * Milli ELSE arg.n * Milli)
        /\ arg.k = "float" =>
              /\ ret.ok
              /\ ret.val = FloatVal(IF 0 < arg.n /\ arg.n <= Milli THEN arg.n * 86400
                                    ELSE arg.n)
        /\ arg.k = "str" /\ IsTimeString(Strip(arg.s)) =>
              ret.ok /\ ret.val = FloatVal(TimeStringSeconds(Strip(arg.s)))
        /\ arg.k = "str" /\ ~IsTimeString(Strip(arg.s)) =>
              ~ret.ok /\ ret.val = Null /\ ret.value = arg
        /\ arg = StrCell(S_2025) => ret.val = FloatVal(1225 * Milli)
        /\ arg = StrCell(S_1_03_05_5) => ret.val = FloatVal(3785 * Milli + 500)
        /\ arg = StrCell(S_99_99) => ret.val = FloatVal((99 * 60 + 99) * Milli)

=============================================================================
